---- MODULE Spec2Model ----
(***************************************************************************)
(* Model of core/lib/dal/src/models/storage_block.rs (zksync-era):         *)
(*   - the block-reference resolver (web3_block_number_to_sql) evaluated   *)
(*     against the persisted tables miniblocks / l1_batches / eth_txs;     *)
(*   - the miniblock-to-batch link (ResolvedL1BatchForMiniblock);          *)
(*   - the conversions of stored rows into L1BatchHeader, L1BatchMetadata  *)
(*     and MiniblockHeader.                                                *)
(*                                                                         *)
(* Two specifications share the variables:                                 *)
(*   Spec      the chain (tables grow by producing miniblocks, sealing     *)
(*             batches, saving and confirming execute transactions) with   *)
(*             the read-only queries resolve and link;                     *)
(*   SpecRows  the row conversions, applied to rows drawn from a bounded   *)
(*             set of stored rows.                                         *)
(***************************************************************************)
EXTENDS Integers, Sequences, FiniteSets, TLC

VARIABLES
    miniblocks,     \* table miniblocks: rows [number, l1_batch_number]
    l1_batches,     \* table l1_batches: rows [number, eth_execute_tx_id]
    eth_txs,        \* table eth_txs: rows [id, confirmed_eth_tx_history_id]
    lastQuery,      \* result of the last resolve() against the current snapshot
    lastLink,       \* result of the last link() against the current snapshot
    row,            \* StorageL1Batch row handed to the conversions
    header,         \* outcome of L1BatchHeader::from(row)
    metadata,       \* outcome of row.try_into() -> L1BatchMetadata
    mbRow,          \* StorageMiniblockHeader row handed to the conversion
    mbHeader,       \* outcome of MiniblockHeader::from(mbRow)
    blockRef,       \* block_id, arg_index and the arguments bound so far
    whereSql,       \* outcome of web3_block_where_sql(block_id, arg_index)
    boundQuery,     \* outcome of bind_block_where_sql_params(block_id, query)
    storage,        \* storage row handed to a page-item or details conversion
    item            \* outcome of that conversion

chainVars == <<miniblocks, l1_batches, eth_txs, lastQuery, lastLink>>
rowVars == <<row, header, metadata, mbRow, mbHeader>>
web3Vars == <<blockRef, whereSql, boundQuery, storage, item>>
vars == <<miniblocks, l1_batches, eth_txs, lastQuery, lastLink,
          row, header, metadata, mbRow, mbHeader,
          blockRef, whereSql, boundQuery, storage, item>>

(***************************************************************************)
(* Bounds of the model.                                                    *)
(***************************************************************************)
MaxMiniblocks == 4
MaxL1Batches == 3
MaxEthTxs == 2
MaxEdits == 2

(***************************************************************************)
(* Option<T> / SQL NULL: a sequence of length at most one.                 *)
(***************************************************************************)
None == <<>>
Some(x) == <<x>>
is_some(o) == o # None
is_none(o) == o = None
unwrap(o) == o[1]
unwrap_or(o, default) == IF is_some(o) THEN unwrap(o) ELSE default

NULL == None

SetMax(S) == CHOOSE x \in S : \A y \in S : y <= x
SetMin(S) == CHOOSE x \in S : \A y \in S : x <= y

(***************************************************************************)
(* SQL aggregate and scalar operators, with SQL's NULL rules: MAX over no  *)
(* rows is NULL, NULL + 1 is NULL, a comparison with NULL selects no row,  *)
(* COALESCE takes the first non-NULL argument.                             *)
(***************************************************************************)
SqlMax(S) == IF S = {} THEN NULL ELSE Some(SetMax(S))
SqlMin(S) == IF S = {} THEN NULL ELSE Some(SetMin(S))
SqlPlus(a, n) == IF a = NULL THEN NULL ELSE Some(unwrap(a) + n)
SqlEq(a, b) == a # NULL /\ b # NULL /\ unwrap(a) = unwrap(b)
Coalesce(a, b) == IF a # NULL THEN a ELSE b

(***************************************************************************)
(* api::BlockNumber                                                        *)
(***************************************************************************)
Number(n) == [tag |-> "Number", number |-> n]
Earliest == [tag |-> "Earliest"]
Pending == [tag |-> "Pending"]
Latest == [tag |-> "Latest"]
Committed == [tag |-> "Committed"]
Finalized == [tag |-> "Finalized"]

BlockNumbers ==
    {Earliest, Pending, Latest, Committed, Finalized}
        \cup {Number(n) : n \in 0..MaxMiniblocks}

(***************************************************************************)
(* SQL text is a sequence of fragments: literal text, or a number rendered *)
(* by to_string().                                                         *)
(***************************************************************************)
Text(s) == [kind |-> "text", text |-> s]
Rendered(n) == [kind |-> "number", number |-> n]

PendingSql == <<Text("(SELECT (MAX(number) + 1) as number FROM miniblocks)")>>
LatestSql == <<Text("(SELECT MAX(number) as number FROM miniblocks)")>>
FinalizedSql ==
    <<Text("(SELECT COALESCE((SELECT MAX(number) FROM miniblocks WHERE l1_batch_number = (SELECT MAX(number) FROM l1_batches JOIN eth_txs ON l1_batches.eth_execute_tx_id = eth_txs.id WHERE eth_txs.confirmed_eth_tx_history_id IS NOT NULL)), 0) as number)")>>

web3_block_number_to_sql_NoPlusOne(block_number) ==
    CASE block_number.tag = "Number" -> <<Rendered(block_number.number)>>
      [] block_number.tag = "Earliest" -> <<Rendered(0)>>
      [] block_number.tag = "Pending" -> LatestSql
      [] block_number.tag \in {"Latest", "Committed"} -> LatestSql
      [] block_number.tag = "Finalized" -> FinalizedSql

web3_block_number_to_sql_EarliestOne(block_number) ==
    CASE block_number.tag = "Number" -> <<Rendered(block_number.number)>>
      [] block_number.tag = "Earliest" -> <<Rendered(1)>>
      [] block_number.tag = "Pending" -> PendingSql
      [] block_number.tag \in {"Latest", "Committed"} -> LatestSql
      [] block_number.tag = "Finalized" -> FinalizedSql

web3_block_number_to_sql(block_number) ==
    CASE block_number.tag = "Number" -> <<Rendered(block_number.number)>>
      [] block_number.tag = "Earliest" -> <<Rendered(0)>>
      [] block_number.tag = "Pending" -> PendingSql
      [] block_number.tag \in {"Latest", "Committed"} -> LatestSql
      [] block_number.tag = "Finalized" -> FinalizedSql

(***************************************************************************)
(* What the database computes for each expression, on the current tables.  *)
(***************************************************************************)
\* SELECT (MAX(number) + 1) as number FROM miniblocks
EvalPendingSql == SqlPlus(SqlMax({m.number : m \in miniblocks}), 1)

\* SELECT MAX(number) as number FROM miniblocks
EvalLatestSql == SqlMax({m.number : m \in miniblocks})

\* l1_batches JOIN eth_txs ON l1_batches.eth_execute_tx_id = eth_txs.id
ExecuteJoin ==
    {<<b, t>> \in l1_batches \X eth_txs : SqlEq(b.eth_execute_tx_id, Some(t.id))}

MaxExecutedBatch_AnyTx ==
    SqlMax({j[1].number : j \in ExecuteJoin})

MaxExecutedBatch_Min ==
    SqlMin({j[1].number : j \in
              {j \in ExecuteJoin : j[2].confirmed_eth_tx_history_id # NULL}})

\* SELECT MAX(number) FROM l1_batches JOIN eth_txs ON ...
\*   WHERE eth_txs.confirmed_eth_tx_history_id IS NOT NULL
MaxExecutedBatch ==
    SqlMax({j[1].number : j \in
              {j \in ExecuteJoin : j[2].confirmed_eth_tx_history_id # NULL}})

EvalFinalizedSql_Inner(maxBatch) ==
    Coalesce(
        SqlMax({m.number : m \in
                  {m \in miniblocks : SqlEq(m.l1_batch_number, maxBatch)}}),
        Some(0))

\* SELECT COALESCE((SELECT MAX(number) FROM miniblocks
\*                  WHERE l1_batch_number = (...)), 0) as number
EvalFinalizedSql == EvalFinalizedSql_Inner(MaxExecutedBatch)

EvalSql(sql) ==
    CASE sql = PendingSql -> EvalPendingSql
      [] sql = LatestSql -> EvalLatestSql
      [] sql = FinalizedSql -> EvalFinalizedSql
      [] Len(sql) = 1 /\ sql[1].kind = "number" -> Some(sql[1].number)

\* resolve(reference): the value of the expression at the moment of use.
resolve(block_number) == EvalSql(web3_block_number_to_sql(block_number))

(***************************************************************************)
(* ResolvedL1BatchForMiniblock                                             *)
(***************************************************************************)
expected_l1_batch_OrDefault(self) == unwrap_or(self.miniblock_l1_batch, 0)

expected_l1_batch_Pending(self) == self.pending_l1_batch

expected_l1_batch(self) ==
    unwrap_or(self.miniblock_l1_batch, self.pending_l1_batch)

\* The batch that is open: one past the last sealed batch, 0 before any.
PendingL1Batch ==
    IF l1_batches = {} THEN 0 ELSE SetMax({b.number : b \in l1_batches}) + 1

\* link(miniblock): the explicit assignment of the miniblock, if its batch
\* is sealed, and the number of the open batch.
link(m) ==
    [miniblock_l1_batch |-> m.l1_batch_number,
     pending_l1_batch |-> PendingL1Batch]

(***************************************************************************)
(* The chain: writers of the three tables.                                 *)
(***************************************************************************)
NoResult == [kind |-> "none"]

OpenMiniblocks == {m \in miniblocks : m.l1_batch_number = NULL}

NextMiniblockNumber ==
    IF miniblocks = {} THEN 0 ELSE SetMax({m.number : m \in miniblocks}) + 1

\* A miniblock is produced into the open batch: no explicit assignment yet.
ProduceMiniblock ==
    /\ Cardinality(miniblocks) < MaxMiniblocks
    /\ miniblocks' = miniblocks \cup
          {[number |-> NextMiniblockNumber, l1_batch_number |-> NULL]}
    /\ lastQuery' = NoResult
    /\ lastLink' = NoResult
    /\ UNCHANGED <<l1_batches, eth_txs, rowVars, web3Vars>>

\* The open batch seals: it gets the pending number and every miniblock
\* produced into it is assigned to it explicitly.
SealL1Batch ==
    /\ OpenMiniblocks # {}
    /\ Cardinality(l1_batches) < MaxL1Batches
    /\ l1_batches' = l1_batches \cup
          {[number |-> PendingL1Batch, eth_execute_tx_id |-> NULL]}
    /\ miniblocks' =
          {IF m.l1_batch_number = NULL
             THEN [m EXCEPT !.l1_batch_number = Some(PendingL1Batch)]
             ELSE m : m \in miniblocks}
    /\ lastQuery' = NoResult
    /\ lastLink' = NoResult
    /\ UNCHANGED <<eth_txs, rowVars, web3Vars>>

UnexecutedBatches == {b \in l1_batches : b.eth_execute_tx_id = NULL}

\* An execute transaction is saved for the oldest sealed batches that have
\* none, up to batch `last`; it is not confirmed yet.
SaveExecuteTx(last) ==
    /\ Cardinality(eth_txs) < MaxEthTxs
    /\ last \in {b.number : b \in UnexecutedBatches}
    /\ LET id == Cardinality(eth_txs) + 1
       IN /\ eth_txs' = eth_txs \cup
                {[id |-> id, confirmed_eth_tx_history_id |-> NULL]}
          /\ l1_batches' =
                {IF b \in UnexecutedBatches /\ b.number <= last
                   THEN [b EXCEPT !.eth_execute_tx_id = Some(id)]
                   ELSE b : b \in l1_batches}
    /\ lastQuery' = NoResult
    /\ lastLink' = NoResult
    /\ UNCHANGED <<miniblocks, rowVars, web3Vars>>

\* The base layer confirms an execute transaction.
ConfirmExecuteTx(id) ==
    /\ \E t \in eth_txs : t.id = id /\ t.confirmed_eth_tx_history_id = NULL
    /\ eth_txs' =
          {IF t.id = id
             THEN [t EXCEPT !.confirmed_eth_tx_history_id = Some(id)]
             ELSE t : t \in eth_txs}
    /\ lastQuery' = NoResult
    /\ lastLink' = NoResult
    /\ UNCHANGED <<miniblocks, l1_batches, rowVars, web3Vars>>

(***************************************************************************)
(* The readers: both evaluate against the current tables and change none.  *)
(* One result is held at a time: a read replaces the result of the read    *)
(* before it, and a write to the tables (above) drops it, since it was     *)
(* computed on the snapshot before the write.                              *)
(***************************************************************************)
Resolve(block_number) ==
    /\ lastQuery' = [kind |-> "resolved",
                     reference |-> block_number,
                     value |-> resolve(block_number)]
    /\ lastLink' = NoResult
    /\ UNCHANGED <<miniblocks, l1_batches, eth_txs, rowVars, web3Vars>>

Link(m) ==
    /\ m \in miniblocks
    /\ lastLink' = [kind |-> "linked",
                    miniblock |-> m.number,
                    resolved |-> link(m),
                    expected |-> expected_l1_batch(link(m))]
    /\ lastQuery' = NoResult
    /\ UNCHANGED <<miniblocks, l1_batches, eth_txs, rowVars, web3Vars>>

(***************************************************************************)
(* Values of the stored rows.                                              *)
(*                                                                         *)
(* A byte string (Vec<u8>) is given by its length and its content, `len`   *)
(* bytes all equal to `fill`.  A 64-bit integer is its four 16-bit limbs,  *)
(* least significant first, in two's complement; `signed` tells how the    *)
(* bits are read.  A 32-bit signed integer (i32) is an integer.            *)
(***************************************************************************)
Bytes(n, b) == [len |-> n, fill |-> b]

H256Len == 32
AddressLen == 20
H2048Len == 256
L2ToL1LogLen == 88
PriorityOpLen == 64

Limb == 2^16

Ok(v) == [kind |-> "Ok", value |-> v]
Err(e) == [kind |-> "Err", error |-> e]
Panic == [kind |-> "Panic"]
Incomplete == "Incomplete"

\* An i64 from its limbs, and the small ones from an integer.
I64Limbs(l) == [signed |-> TRUE, limbs |-> l]
I64(n) ==
    I64Limbs(<<n % Limb,
               (n \div Limb) % Limb,
               IF n < 0 THEN Limb - 1 ELSE 0,
               IF n < 0 THEN Limb - 1 ELSE 0>>)

IsNegative(x) == x.signed /\ x.limbs[Len(x.limbs)] >= Limb \div 2

\* The limbs of x extended to four limbs, by its sign.
Extend(x) ==
    [i \in 1..4 |->
        IF i <= Len(x.limbs) THEN x.limbs[i]
        ELSE IF IsNegative(x) THEN Limb - 1 ELSE 0]

\* Two integers of any width and signedness denote the same number.
SameNumber(x, y) == IsNegative(x) = IsNegative(y) /\ Extend(x) = Extend(y)

\* `x as u32`, `x as u64` on an i64; `x as u16` on an i32.
as_u32(x) == [signed |-> FALSE, limbs |-> SubSeq(x.limbs, 1, 2)]
as_u64(x) == [signed |-> FALSE, limbs |-> x.limbs]
as_u16(x) == x % Limb

\* H256::from_slice, Address::from_slice, H2048::from_slice: panic unless
\* the slice has exactly the width of the type.
from_slice(src, width) == IF src.len = width THEN Ok(src) ELSE Panic

\* serde_json::from_value::<Vec<_>>: an error unless the value is an array.
JsonArray(items) == [json |-> "array", items |-> items]
JsonNull == [json |-> "null"]
from_value(v) == IF v.json = "array" THEN Ok(v.items) ELSE Err("json")

\* BigDecimal::to_u64: None for a negative number.
to_u64(d) == IF d >= 0 THEN Some(d) ELSE None

(***************************************************************************)
(* StorageL1Batch: a fully populated, well-formed row; every byte string   *)
(* has its own content.                                                    *)
(***************************************************************************)
BaseRow ==
    [kind |-> "StorageL1Batch",
     number |-> I64(7),
     timestamp |-> I64(1000),
     is_finished |-> TRUE,
     l1_tx_count |-> 3,
     l2_tx_count |-> 40,
     fee_account_address |-> Bytes(AddressLen, 1),
     bloom |-> Bytes(H2048Len, 2),
     l2_to_l1_logs |-> <<Bytes(L2ToL1LogLen, 3)>>,
     priority_ops_onchain_data |-> <<Bytes(PriorityOpLen, 4)>>,
     created_at |-> 1000,
     updated_at |-> 1001,
     parent_hash |-> Some(Bytes(H256Len, 5)),
     hash |-> Some(Bytes(H256Len, 6)),
     merkle_root_hash |-> Some(Bytes(H256Len, 7)),
     commitment |-> Some(Bytes(H256Len, 8)),
     meta_parameters_hash |-> Some(Bytes(H256Len, 9)),
     pass_through_data_hash |-> Some(Bytes(H256Len, 10)),
     aux_data_hash |-> Some(Bytes(H256Len, 11)),
     rollup_last_leaf_index |-> Some(I64(500)),
     zkporter_is_available |-> Some(FALSE),
     bootloader_code_hash |-> Some(Bytes(H256Len, 12)),
     default_aa_code_hash |-> Some(Bytes(H256Len, 13)),
     l2_to_l1_messages |-> <<Bytes(5, 14)>>,
     l2_l1_compressed_messages |-> Some(Bytes(9, 15)),
     l2_l1_merkle_root |-> Some(Bytes(H256Len, 16)),
     compressed_initial_writes |-> Some(Bytes(40, 17)),
     compressed_repeated_writes |-> Some(Bytes(24, 18)),
     compressed_write_logs |-> Some(Bytes(8, 19)),
     compressed_contracts |-> Some(Bytes(8, 20)),
     eth_prove_tx_id |-> Some(2),
     eth_commit_tx_id |-> Some(1),
     eth_execute_tx_id |-> Some(3),
     predicted_commit_gas_cost |-> I64(100),
     predicted_prove_gas_cost |-> I64(200),
     predicted_execute_gas_cost |-> I64(300),
     initial_bootloader_heap_content |-> JsonArray(<<<<0, 1>>>>),
     used_contract_hashes |-> JsonArray(<<21>>),
     base_fee_per_gas |-> 250,
     l1_gas_price |-> I64(30),
     l2_fair_gas_price |-> I64(25),
     gas_per_pubdata_byte_in_block |-> Some(800),
     gas_per_pubdata_limit |-> I64(800),
     skip_proof |-> FALSE]

\* The fourteen commitment fields, in the order try_into reads them, and
\* those of them that are decoded with H256::from_slice.
CommitmentFields ==
    <<"hash", "rollup_last_leaf_index", "merkle_root_hash",
      "compressed_initial_writes", "compressed_repeated_writes",
      "l2_l1_compressed_messages", "l2_l1_merkle_root", "aux_data_hash",
      "meta_parameters_hash", "pass_through_data_hash", "commitment",
      "zkporter_is_available", "bootloader_code_hash",
      "default_aa_code_hash">>

Range(f) == {f[i] : i \in DOMAIN f}

CommitmentHashFields ==
    <<"hash", "merkle_root_hash", "l2_l1_merkle_root", "aux_data_hash",
      "meta_parameters_hash", "pass_through_data_hash", "commitment",
      "bootloader_code_hash", "default_aa_code_hash">>

H256Fields == Range(CommitmentHashFields)

\* The nullable columns try_into does not read.
OtherNullableFields ==
    <<"parent_hash", "compressed_write_logs", "compressed_contracts",
      "eth_prove_tx_id", "eth_commit_tx_id", "eth_execute_tx_id",
      "gas_per_pubdata_byte_in_block">>

\* Single-column changes of a stored row: a nullable column left NULL, a
\* hash column of another width, a number outside the range of the header
\* field, an always-present column that does not decode.
BatchEdits ==
    [i \in DOMAIN CommitmentFields |->
        [field |-> CommitmentFields[i], value |-> None]]
    \o [i \in DOMAIN OtherNullableFields |->
        [field |-> OtherNullableFields[i], value |-> None]]
    \o [i \in DOMAIN CommitmentHashFields |->
        [field |-> CommitmentHashFields[i],
         value |-> Some(Bytes(H256Len - 1, 30))]]
    \o <<[field |-> "hash", value |-> Some(Bytes(H256Len, 31))],
         [field |-> "zkporter_is_available", value |-> Some(TRUE)],
         [field |-> "is_finished", value |-> FALSE],
         [field |-> "rollup_last_leaf_index", value |-> Some(I64(-1))],
         [field |-> "number", value |-> I64Limbs(<<7, 0, 1, 0>>)],
         [field |-> "number", value |-> I64(-1)],
         [field |-> "timestamp", value |-> I64(-1)],
         [field |-> "l1_tx_count", value |-> Limb + 3],
         [field |-> "l1_tx_count", value |-> -1],
         [field |-> "l2_tx_count", value |-> Limb],
         [field |-> "l1_gas_price", value |-> I64(-30)],
         [field |-> "l2_fair_gas_price", value |-> I64(-25)],
         [field |-> "base_fee_per_gas", value |-> -1],
         [field |-> "fee_account_address", value |-> Bytes(AddressLen - 1, 1)],
         [field |-> "bloom", value |-> Bytes(H2048Len + 1, 2)],
         [field |-> "l2_to_l1_logs",
          value |-> <<Bytes(L2ToL1LogLen, 3), Bytes(L2ToL1LogLen - 1, 3)>>],
         [field |-> "priority_ops_onchain_data",
          value |-> <<Bytes(PriorityOpLen + 1, 4)>>],
         [field |-> "initial_bootloader_heap_content", value |-> JsonNull],
         [field |-> "used_contract_hashes", value |-> JsonNull]>>

ApplyEdit(r, e) == [r EXCEPT ![e.field] = e.value]

\* The rows that differ from `base` in at most k columns.
RECURSIVE RowsWithin(_, _, _)
RowsWithin(base, edits, k) ==
    IF k = 0
      THEN {base}
      ELSE LET fewer == RowsWithin(base, edits, k - 1)
           IN fewer \cup
                {ApplyEdit(r, edits[i]) : r \in fewer, i \in DOMAIN edits}

(***************************************************************************)
(* impl TryInto<L1BatchMetadata> for StorageL1Batch                        *)
(*                                                                         *)
(* The fields of the struct expression are evaluated in the order written; *)
(* `ok_or(Incomplete)?` returns at the first absent field, and             *)
(* H256::from_slice panics at the first hash of another width.             *)
(***************************************************************************)
MetadataStep(r, f) ==
    IF r[f] = None
      THEN "Incomplete"
      ELSE IF f \in H256Fields /\ from_slice(unwrap(r[f]), H256Len) = Panic
             THEN "Panic"
             ELSE "Ok"

\* The first field, in evaluation order, that is absent or does not decode;
\* 0 when there is none.
FirstFailure(r) ==
    LET bad == {i \in DOMAIN CommitmentFields :
                   MetadataStep(r, CommitmentFields[i]) # "Ok"}
    IN IF bad = {} THEN 0 ELSE SetMin(bad)

MetadataOf_RootFromMerkle(r) ==
    [root_hash |-> unwrap(r.merkle_root_hash),
     rollup_last_leaf_index |-> as_u64(unwrap(r.rollup_last_leaf_index)),
     merkle_root_hash |-> unwrap(r.merkle_root_hash),
     initial_writes_compressed |-> unwrap(r.compressed_initial_writes),
     repeated_writes_compressed |-> unwrap(r.compressed_repeated_writes),
     l2_l1_messages_compressed |-> unwrap(r.l2_l1_compressed_messages),
     l2_l1_merkle_root |-> unwrap(r.l2_l1_merkle_root),
     aux_data_hash |-> unwrap(r.aux_data_hash),
     meta_parameters_hash |-> unwrap(r.meta_parameters_hash),
     pass_through_data_hash |-> unwrap(r.pass_through_data_hash),
     commitment |-> unwrap(r.commitment),
     block_meta_params |->
        [zkporter_is_available |-> unwrap(r.zkporter_is_available),
         bootloader_code_hash |-> unwrap(r.bootloader_code_hash),
         default_aa_code_hash |-> unwrap(r.default_aa_code_hash)]]

\* The L1BatchMetadata built when every step succeeds.
MetadataOf(r) ==
    [root_hash |-> unwrap(r.hash),
     rollup_last_leaf_index |-> as_u64(unwrap(r.rollup_last_leaf_index)),
     merkle_root_hash |-> unwrap(r.merkle_root_hash),
     initial_writes_compressed |-> unwrap(r.compressed_initial_writes),
     repeated_writes_compressed |-> unwrap(r.compressed_repeated_writes),
     l2_l1_messages_compressed |-> unwrap(r.l2_l1_compressed_messages),
     l2_l1_merkle_root |-> unwrap(r.l2_l1_merkle_root),
     aux_data_hash |-> unwrap(r.aux_data_hash),
     meta_parameters_hash |-> unwrap(r.meta_parameters_hash),
     pass_through_data_hash |-> unwrap(r.pass_through_data_hash),
     commitment |-> unwrap(r.commitment),
     block_meta_params |->
        [zkporter_is_available |-> unwrap(r.zkporter_is_available),
         bootloader_code_hash |-> unwrap(r.bootloader_code_hash),
         default_aa_code_hash |-> unwrap(r.default_aa_code_hash)]]

try_into_DefaultAaHash(r) ==
    LET q == [r EXCEPT !.default_aa_code_hash =
                          IF @ = None THEN Some(Bytes(H256Len, 0)) ELSE @]
        i == FirstFailure(q)
    IN IF i = 0
         THEN Ok(MetadataOf(q))
         ELSE IF MetadataStep(q, CommitmentFields[i]) = "Incomplete"
                THEN Err(Incomplete)
                ELSE Panic

try_into(r) ==
    LET i == FirstFailure(r)
    IN IF i = 0
         THEN Ok(MetadataOf(r))
         ELSE IF MetadataStep(r, CommitmentFields[i]) = "Incomplete"
                THEN Err(Incomplete)
                ELSE Panic

(***************************************************************************)
(* impl From<StorageL1Batch> for L1BatchHeader                             *)
(*                                                                         *)
(* Every failure of this conversion is a panic: a slice of another width,  *)
(* a JSON value that is no array, a base fee that is no u64, an absent     *)
(* bootloader_code_hash or default_aa_code_hash (`expect`).  The numeric   *)
(* fields are narrowed with `as`.                                          *)
(***************************************************************************)
ExpectH256_OrZero(o) ==
    IF o = None THEN Ok(Bytes(H256Len, 0)) ELSE from_slice(unwrap(o), H256Len)

\* Option<Vec<u8>> -> H256 by .map(H256::from_slice).expect(..)
ExpectH256(o) ==
    IF o = None THEN Panic ELSE from_slice(unwrap(o), H256Len)

\* What can panic while an L1BatchHeader is built, apart from the two hashes.
HeaderDecodes(r) ==
    /\ \A i \in DOMAIN r.priority_ops_onchain_data :
          from_slice(r.priority_ops_onchain_data[i], PriorityOpLen) # Panic
    /\ \A i \in DOMAIN r.l2_to_l1_logs :
          from_slice(r.l2_to_l1_logs[i], L2ToL1LogLen) # Panic
    /\ from_slice(r.fee_account_address, AddressLen) # Panic
    /\ from_slice(r.bloom, H2048Len) # Panic
    /\ from_value(r.initial_bootloader_heap_content).kind = "Ok"
    /\ from_value(r.used_contract_hashes).kind = "Ok"
    /\ is_some(to_u64(r.base_fee_per_gas))

L1BatchHeader_from(l1_batch) ==
    IF /\ HeaderDecodes(l1_batch)
       /\ ExpectH256(l1_batch.bootloader_code_hash) # Panic
       /\ ExpectH256(l1_batch.default_aa_code_hash) # Panic
      THEN Ok([number |-> as_u32(l1_batch.number),
               is_finished |-> l1_batch.is_finished,
               timestamp |-> as_u64(l1_batch.timestamp),
               fee_account_address |-> l1_batch.fee_account_address,
               priority_ops_onchain_data |-> l1_batch.priority_ops_onchain_data,
               l1_tx_count |-> as_u16(l1_batch.l1_tx_count),
               l2_tx_count |-> as_u16(l1_batch.l2_tx_count),
               l2_to_l1_logs |-> l1_batch.l2_to_l1_logs,
               l2_to_l1_messages |-> l1_batch.l2_to_l1_messages,
               bloom |-> l1_batch.bloom,
               initial_bootloader_contents |->
                  from_value(l1_batch.initial_bootloader_heap_content).value,
               used_contract_hashes |->
                  from_value(l1_batch.used_contract_hashes).value,
               base_fee_per_gas |-> unwrap(to_u64(l1_batch.base_fee_per_gas)),
               base_system_contracts_hashes |->
                  [bootloader |->
                      ExpectH256(l1_batch.bootloader_code_hash).value,
                   default_aa |->
                      ExpectH256(l1_batch.default_aa_code_hash).value],
               l1_gas_price |-> as_u64(l1_batch.l1_gas_price),
               l2_fair_gas_price |-> as_u64(l1_batch.l2_fair_gas_price)])
      ELSE Panic

(***************************************************************************)
(* StorageMiniblockHeader and impl From<..> for MiniblockHeader            *)
(***************************************************************************)
BaseMiniblockRow ==
    [kind |-> "StorageMiniblockHeader",
     number |-> I64(100),
     timestamp |-> I64(1000),
     hash |-> Bytes(H256Len, 41),
     l1_tx_count |-> 1,
     l2_tx_count |-> 12,
     base_fee_per_gas |-> 250,
     l1_gas_price |-> I64(30),
     l2_fair_gas_price |-> I64(25),
     bootloader_code_hash |-> Some(Bytes(H256Len, 42)),
     default_aa_code_hash |-> Some(Bytes(H256Len, 43))]

MiniblockEdits ==
    <<[field |-> "number", value |-> I64Limbs(<<100, 0, 2, 0>>)],
     [field |-> "number", value |-> I64(-100)],
     [field |-> "timestamp", value |-> I64(-1)],
     [field |-> "hash", value |-> Bytes(H256Len + 1, 41)],
     [field |-> "l1_tx_count", value |-> 2 * Limb + 1],
     [field |-> "l2_tx_count", value |-> -12],
     [field |-> "base_fee_per_gas", value |-> -1],
     [field |-> "l1_gas_price", value |-> I64(-30)],
     [field |-> "l2_fair_gas_price", value |-> I64(-25)],
     [field |-> "bootloader_code_hash", value |-> None],
     [field |-> "bootloader_code_hash", value |-> Some(Bytes(H256Len - 1, 42))],
     [field |-> "bootloader_code_hash", value |-> Some(Bytes(H256Len, 44))],
     [field |-> "default_aa_code_hash", value |-> None],
     [field |-> "default_aa_code_hash", value |-> Some(Bytes(H256Len - 1, 43))]>>

MiniblockHeader_from(r) ==
    IF /\ from_slice(r.hash, H256Len) # Panic
       /\ is_some(to_u64(r.base_fee_per_gas))
       /\ ExpectH256(r.bootloader_code_hash) # Panic
       /\ ExpectH256(r.default_aa_code_hash) # Panic
      THEN Ok([number |-> as_u32(r.number),
               timestamp |-> as_u64(r.timestamp),
               hash |-> r.hash,
               l1_tx_count |-> as_u16(r.l1_tx_count),
               l2_tx_count |-> as_u16(r.l2_tx_count),
               base_fee_per_gas |-> unwrap(to_u64(r.base_fee_per_gas)),
               l1_gas_price |-> as_u64(r.l1_gas_price),
               l2_fair_gas_price |-> as_u64(r.l2_fair_gas_price),
               base_system_contracts_hashes |->
                  [bootloader |-> ExpectH256(r.bootloader_code_hash).value,
                   default_aa |-> ExpectH256(r.default_aa_code_hash).value]])
      ELSE Panic

(***************************************************************************)
(* Spec: the chain from an empty database, with its readers.               *)
(***************************************************************************)
NoRow == [kind |-> "none"]

Init ==
    /\ miniblocks = {}
    /\ l1_batches = {}
    /\ eth_txs = {}
    /\ lastQuery = NoResult
    /\ lastLink = NoResult
    /\ row = NoRow
    /\ header = NoResult
    /\ metadata = NoResult
    /\ mbRow = NoRow
    /\ mbHeader = NoResult
    /\ blockRef = NoRow
    /\ whereSql = NoResult
    /\ boundQuery = NoResult
    /\ storage = NoRow
    /\ item = NoResult

Next ==
    \/ ProduceMiniblock
    \/ SealL1Batch
    \/ \E last \in 0..MaxL1Batches : SaveExecuteTx(last)
    \/ \E id \in 1..MaxEthTxs : ConfirmExecuteTx(id)
    \/ \E block_number \in BlockNumbers : Resolve(block_number)
    \/ \E m \in miniblocks : Link(m)

Spec == Init /\ [][Next]_vars

(***************************************************************************)
(* Properties of the resolver.                                             *)
(***************************************************************************)
\* Batches whose execute transaction has a non-null confirmation id.
ConfirmedBatches ==
    {b \in l1_batches :
        \E t \in eth_txs :
            /\ b.eth_execute_tx_id = Some(t.id)
            /\ t.confirmed_eth_tx_history_id # NULL}

\* Miniblocks whose containing batch is one of them.
FinalizedMiniblocks ==
    {m \in miniblocks :
        \E b \in ConfirmedBatches : m.l1_batch_number = Some(b.number)}

HighestFinalized ==
    IF FinalizedMiniblocks = {}
      THEN 0
      ELSE SetMax({m.number : m \in FinalizedMiniblocks})

Resolved(block_number) ==
    lastQuery.kind = "resolved" /\ lastQuery.reference = block_number

\* C3: in every persisted state the Finalized expression evaluates to the
\* highest miniblock number among the miniblocks whose containing batch has
\* an execute transaction with a non-null confirmation id, and to 0 when
\* there is no such miniblock.
C3_FinalizedIsHighestConfirmed ==
    /\ resolve(Finalized) = Some(HighestFinalized)
    /\ Resolved(Finalized) => lastQuery.value = Some(HighestFinalized)

\* Finalized was resolved with two sealed batches of which the older is
\* confirmed and the newer is not.
C3_Witness ==
    /\ Resolved(Finalized)
    /\ lastQuery.value # Some(0)
    /\ \E b1 \in ConfirmedBatches, b2 \in l1_batches \ ConfirmedBatches :
          /\ b1.number < b2.number
          /\ \E m \in miniblocks : m.l1_batch_number = Some(b2.number)

\* C4 as stated: in every reachable state Finalized resolves to a number
\* that is at most the number Latest resolves to, and to 0 when no batch
\* has a confirmed execute transaction.
C4_Original ==
    /\ Resolved(Finalized) =>
          /\ is_some(lastQuery.value)
          /\ is_some(resolve(Latest))
          /\ unwrap(lastQuery.value) <= unwrap(resolve(Latest))
    /\ ConfirmedBatches = {} => resolve(Finalized) = Some(0)

\* C4 amended: once a miniblock exists, Finalized resolves to at most what
\* Latest resolves to; before that Latest resolves to NULL and Finalized to
\* 0; in every state Finalized is 0 when no batch has a confirmed execute
\* transaction.
C4_FinalizedAtMostLatest ==
    /\ is_some(resolve(Finalized))
    /\ miniblocks # {} =>
          /\ is_some(resolve(Latest))
          /\ unwrap(resolve(Finalized)) <= unwrap(resolve(Latest))
    /\ miniblocks = {} =>
          /\ resolve(Latest) = NULL
          /\ resolve(Finalized) = Some(0)
    /\ ConfirmedBatches = {} => resolve(Finalized) = Some(0)
    /\ Resolved(Finalized) /\ miniblocks # {} =>
          unwrap(lastQuery.value) <= unwrap(resolve(Latest))

\* Finalized was resolved to a number above 0 and below Latest.
C4_Witness ==
    /\ Resolved(Finalized)
    /\ lastQuery.value # Some(0)
    /\ unwrap(lastQuery.value) < unwrap(resolve(Latest))

\* C5 as stated: in every persisted state, the empty chain included,
\* Pending resolves to the number Latest (and Committed) resolves to, plus 1.
C5_Original ==
    Resolved(Pending) =>
        /\ is_some(lastQuery.value)
        /\ is_some(resolve(Latest))
        /\ resolve(Committed) = resolve(Latest)
        /\ unwrap(lastQuery.value) = unwrap(resolve(Latest)) + 1

\* C5 amended: in every persisted state with at least one miniblock,
\* Pending resolves to Latest plus 1 and Committed resolves as Latest; with
\* no miniblock all three evaluate to NULL, so none resolves to a number.
C5_PendingIsLatestPlusOne ==
    /\ resolve(Committed) = resolve(Latest)
    /\ miniblocks # {} =>
          /\ is_some(resolve(Pending))
          /\ is_some(resolve(Latest))
          /\ unwrap(resolve(Pending)) = unwrap(resolve(Latest)) + 1
    /\ miniblocks = {} =>
          /\ resolve(Pending) = NULL
          /\ resolve(Latest) = NULL
    /\ Resolved(Pending) => lastQuery.value = SqlPlus(resolve(Latest), 1)

\* Pending was resolved on a chain of several miniblocks.
C5_Witness ==
    /\ Resolved(Pending)
    /\ Cardinality(miniblocks) >= 2
    /\ lastQuery.value = Some(Cardinality(miniblocks))

\* C6: Earliest resolves to 0 in every state, whatever miniblocks, batches
\* and confirmations exist.
C6_EarliestIsZero ==
    /\ resolve(Earliest) = Some(0)
    /\ Resolved(Earliest) => lastQuery.value = Some(0)

\* Earliest was resolved on a chain with several miniblocks and a
\* confirmed batch.
C6_Witness ==
    /\ Resolved(Earliest)
    /\ Cardinality(miniblocks) >= 2
    /\ ConfirmedBatches # {}

(***************************************************************************)
(* Properties of the link.                                                 *)
(***************************************************************************)
\* C7: expected_l1_batch() returns the explicit batch number when it is
\* present and the pending batch number when it is absent.
C7_ExpectedPrefersExplicit ==
    lastLink.kind = "linked" =>
        /\ is_some(lastLink.resolved.miniblock_l1_batch) =>
              lastLink.expected = unwrap(lastLink.resolved.miniblock_l1_batch)
        /\ is_none(lastLink.resolved.miniblock_l1_batch) =>
              lastLink.expected = lastLink.resolved.pending_l1_batch

\* A link with an explicit assignment that differs from the pending batch.
C7_Witness ==
    /\ lastLink.kind = "linked"
    /\ is_some(lastLink.resolved.miniblock_l1_batch)
    /\ lastLink.resolved.pending_l1_batch
          # unwrap(lastLink.resolved.miniblock_l1_batch)
    /\ lastLink.expected = unwrap(lastLink.resolved.miniblock_l1_batch)

\* C8: for every miniblock, link(miniblock).expected_l1_batch() never
\* changes: not when its batch seals, not when later batches open and seal.
C8_ExpectedIsStable ==
    [][\A m \in miniblocks :
         \A n \in miniblocks' :
            n.number = m.number =>
               expected_l1_batch(link(n))' = expected_l1_batch(link(m))]_vars

\* A miniblock linked after its batch sealed and a later batch opened.
C8_Witness ==
    /\ lastLink.kind = "linked"
    /\ is_some(lastLink.resolved.miniblock_l1_batch)
    /\ lastLink.resolved.pending_l1_batch
          > unwrap(lastLink.resolved.miniblock_l1_batch) + 1
    /\ lastLink.expected = unwrap(lastLink.resolved.miniblock_l1_batch)

(***************************************************************************)
(* SpecRows: the conversions applied to stored rows.  A run is handed      *)
(* either a batch row or a miniblock row, one that differs from the        *)
(* populated row in at most MaxEdits columns, and converts it.             *)
(***************************************************************************)
InitRows ==
    /\ miniblocks = {}
    /\ l1_batches = {}
    /\ eth_txs = {}
    /\ lastQuery = NoResult
    /\ lastLink = NoResult
    /\ header = NoResult
    /\ metadata = NoResult
    /\ mbHeader = NoResult
    /\ blockRef = NoRow
    /\ whereSql = NoResult
    /\ boundQuery = NoResult
    /\ storage = NoRow
    /\ item = NoResult
    /\ \/ /\ row \in RowsWithin(BaseRow, BatchEdits, MaxEdits)
          /\ mbRow = NoRow
       \/ /\ row = NoRow
          /\ mbRow \in RowsWithin(BaseMiniblockRow, MiniblockEdits, MaxEdits)

TryIntoMetadata ==
    /\ row # NoRow
    /\ metadata = NoResult
    /\ metadata' = try_into(row)
    /\ UNCHANGED <<chainVars, row, header, mbRow, mbHeader, web3Vars>>

IntoL1BatchHeader ==
    /\ row # NoRow
    /\ header = NoResult
    /\ header' = L1BatchHeader_from(row)
    /\ UNCHANGED <<chainVars, row, metadata, mbRow, mbHeader, web3Vars>>

IntoMiniblockHeader ==
    /\ mbRow # NoRow
    /\ mbHeader = NoResult
    /\ mbHeader' = MiniblockHeader_from(mbRow)
    /\ UNCHANGED <<chainVars, row, header, metadata, mbRow, web3Vars>>

NextRows ==
    \/ TryIntoMetadata
    \/ IntoL1BatchHeader
    \/ IntoMiniblockHeader

SpecRows == InitRows /\ [][NextRows]_vars

(***************************************************************************)
(* api::BlockId, the WHERE predicate for it and the parameters bound to    *)
(* the query.  A predicate is SQL text: literal text, rendered numbers and *)
(* positional placeholders `$n`.  A query is its text and the arguments    *)
(* bound so far.                                                           *)
(***************************************************************************)
MaxArgIndex == 2

U64Limbs(l) == [signed |-> FALSE, limbs |-> l]
U64(n) == U64Limbs(<<n % Limb, (n \div Limb) % Limb, 0, 0>>)

\* U64::as_u64: the low 64 bits, which are all of a U64.
U64_as_u64(x) == [signed |-> FALSE, limbs |-> SubSeq(x.limbs, 1, 4)]
\* `x as i64` on a u64: the same 64 bits, read as two's complement.
as_i64(x) == [signed |-> TRUE, limbs |-> x.limbs]

BlockId_Hash(block_hash) == [id |-> "Hash", hash |-> block_hash]
BlockId_Number(number) == [id |-> "Number", number |-> number]

\* Exact block numbers of a reference are U64: small ones, 2^63 and 2^64 - 1.
ExactNumbers ==
    {U64(n) : n \in 0..MaxMiniblocks}
        \cup {U64Limbs(<<0, 0, 0, Limb \div 2>>),
              U64Limbs(<<Limb - 1, Limb - 1, Limb - 1, Limb - 1>>)}

BlockIds ==
    {BlockId_Hash(Bytes(H256Len, b)) : b \in {17, 18}}
        \cup {BlockId_Number(Number(n)) : n \in ExactNumbers}
        \cup {BlockId_Number(t) :
                 t \in {Earliest, Pending, Latest, Committed, Finalized}}

Placeholder(n) == [kind |-> "placeholder", index |-> n]

web3_block_where_sql(block_id, arg_index) ==
    CASE block_id.id = "Hash" ->
            <<Text("miniblocks.hash = "), Placeholder(arg_index)>>
      [] block_id.id = "Number" /\ block_id.number.tag = "Number" ->
            <<Text("miniblocks.number = "), Placeholder(arg_index)>>
      [] OTHER ->
            <<Text("miniblocks.number = ")>>
                \o web3_block_number_to_sql(block_id.number)

Query(sql, arguments) == [sql |-> sql, arguments |-> arguments]
bind(query, value) == [query EXCEPT !.arguments = Append(@, value)]

bind_block_where_sql_params(block_id, query) ==
    CASE block_id.id = "Hash" -> bind(query, block_id.hash)
      [] block_id.id = "Number" /\ block_id.number.tag = "Number" ->
            bind(query, as_i64(U64_as_u64(block_id.number.number)))
      [] OTHER -> query

\* The arguments a caller has bound before the block reference.
PriorArguments == {<<>>, <<I64(7)>>}

BlockRefs ==
    {[block_id |-> b, arg_index |-> i, arguments |-> a] :
        b \in BlockIds, i \in 1..MaxArgIndex, a \in PriorArguments}

Web3BlockWhereSql ==
    /\ blockRef # NoRow
    /\ whereSql = NoResult
    /\ whereSql' = Ok(web3_block_where_sql(blockRef.block_id,
                                           blockRef.arg_index))
    /\ UNCHANGED <<chainVars, rowVars, blockRef, boundQuery, storage, item>>

\* The query is built from the predicate's text, then the reference is bound.
BindBlockWhereSqlParams ==
    /\ blockRef # NoRow
    /\ whereSql # NoResult
    /\ boundQuery = NoResult
    /\ boundQuery' =
          Ok(bind_block_where_sql_params(
                blockRef.block_id,
                Query(whereSql.value, blockRef.arguments)))
    /\ UNCHANGED <<chainVars, rowVars, blockRef, whereSql, storage, item>>

(***************************************************************************)
(* Page items and details of blocks and batches, with their BlockStatus.   *)
(***************************************************************************)
MaxLastVerified == 2

Sealed == "Sealed"
Verified == "Verified"

U32(n) == [signed |-> FALSE, limbs |-> <<n % Limb, (n \div Limb) % Limb>>]
\* `x as i64` on a u32: zero-extended.
u32_as_i64(x) == I64Limbs(<<x.limbs[1], x.limbs[2], 0, 0>>)
\* `x as usize` on an i32 (64-bit target): sign-extended, the same bits.
as_usize(x) == as_u64(I64(x))

\* x > y on two i64.
Greater(x, y) ==
    IF IsNegative(x) # IsNegative(y)
      THEN IsNegative(y)
      ELSE \E i \in 1..4 :
              /\ x.limbs[i] > y.limbs[i]
              /\ \A j \in (i + 1)..4 : x.limbs[j] = y.limbs[j]

\* option.map(H256::from_slice): panics on a slice of another width.
MapH256(o) ==
    IF is_none(o) THEN Ok(None)
    ELSE IF from_slice(unwrap(o), H256Len) = Panic THEN Panic
    ELSE Ok(Some(unwrap(o)))

\* A String column: n hex digits that spell bytes of value b, or other text.
HexString(n, b) == [hex |-> TRUE, digits |-> n, fill |-> b]
NotHexString == [hex |-> FALSE, digits |-> 2 * H256Len, fill |-> 0]

\* H256::from_str: an error unless the text is 64 hex digits.
from_str(str) ==
    IF str.hex /\ str.digits = 2 * H256Len
      THEN Ok(Bytes(H256Len, str.fill))
      ELSE Err("FromHexError")

\* option.as_deref().map(|hash| H256::from_str(hash).expect(..)).
MapTxHash(o) ==
    IF is_none(o) THEN Ok(None)
    ELSE IF from_str(unwrap(o)).kind = "Err" THEN Panic
    ELSE Ok(Some(from_str(unwrap(o)).value))

\* option.map(|at| DateTime::<Utc>::from_utc(at, Utc)).
MapUtc(o) == IF is_none(o) THEN None ELSE Some([utc |-> unwrap(o)])

BasePageItem ==
    [number |-> I64(2),
     l1_tx_count |-> 1,
     l2_tx_count |-> 12,
     hash |-> Some(Bytes(H256Len, 51)),
     timestamp |-> I64(1000)]

PageItemEdits ==
    <<[field |-> "number", value |-> I64(0)],
      [field |-> "number", value |-> I64(1)],
      [field |-> "number", value |-> I64(3)],
      [field |-> "number", value |-> I64(-1)],
      [field |-> "number", value |-> I64Limbs(<<1, 0, 1, 0>>)],
      [field |-> "l1_tx_count", value |-> -1],
      [field |-> "hash", value |-> None],
      [field |-> "hash", value |-> Some(Bytes(H256Len - 1, 51))],
      [field |-> "timestamp", value |-> I64(-1)]>>

LastVerified ==
    {U32(n) : n \in 0..MaxLastVerified}
        \cup {[signed |-> FALSE, limbs |-> <<Limb - 1, Limb - 1>>]}

block_page_item_from_storage_GreaterOrEqual(storage_, last_verified) ==
    IF MapH256(storage_.hash) = Panic THEN Panic
    ELSE Ok([number |-> as_u32(storage_.number),
             l1_tx_count |-> as_usize(storage_.l1_tx_count),
             l2_tx_count |-> as_usize(storage_.l2_tx_count),
             hash |-> MapH256(storage_.hash).value,
             status |->
                IF \/ Greater(storage_.number, u32_as_i64(last_verified))
                   \/ storage_.number = u32_as_i64(last_verified)
                  THEN Sealed ELSE Verified,
             timestamp |-> as_u64(storage_.timestamp)])

block_page_item_from_storage(storage_, last_verified) ==
    LET status == IF Greater(storage_.number, u32_as_i64(last_verified))
                    THEN Sealed ELSE Verified
    IN  IF MapH256(storage_.hash) = Panic THEN Panic
        ELSE Ok([number |-> as_u32(storage_.number),
                 l1_tx_count |-> as_usize(storage_.l1_tx_count),
                 l2_tx_count |-> as_usize(storage_.l2_tx_count),
                 hash |-> MapH256(storage_.hash).value,
                 status |-> status,
                 timestamp |-> as_u64(storage_.timestamp)])

l1_batch_page_item_from_storage(storage_, last_verified) ==
    LET status == IF Greater(storage_.number, u32_as_i64(last_verified))
                    THEN Sealed ELSE Verified
    IN  IF MapH256(storage_.hash) = Panic THEN Panic
        ELSE Ok([number |-> as_u32(storage_.number),
                 l1_tx_count |-> as_usize(storage_.l1_tx_count),
                 l2_tx_count |-> as_usize(storage_.l2_tx_count),
                 root_hash |-> MapH256(storage_.hash).value,
                 status |-> status,
                 timestamp |-> as_u64(storage_.timestamp)])

BaseL1BatchDetails ==
    [number |-> I64(5),
     timestamp |-> I64(1000),
     l1_tx_count |-> 1,
     l2_tx_count |-> 12,
     root_hash |-> Some(Bytes(H256Len, 61)),
     commit_tx_hash |-> Some(HexString(2 * H256Len, 62)),
     committed_at |-> Some(1001),
     prove_tx_hash |-> Some(HexString(2 * H256Len, 63)),
     proven_at |-> Some(1002),
     execute_tx_hash |-> None,
     executed_at |-> None,
     l1_gas_price |-> I64(30),
     l2_fair_gas_price |-> I64(25),
     bootloader_code_hash |-> Some(Bytes(H256Len, 42)),
     default_aa_code_hash |-> Some(Bytes(H256Len, 43))]

BaseBlockDetails ==
    [number |-> I64(5),
     l1_batch_number |-> I64(1),
     timestamp |-> I64(1000),
     l1_tx_count |-> 1,
     l2_tx_count |-> 12,
     root_hash |-> Some(Bytes(H256Len, 61)),
     commit_tx_hash |-> Some(HexString(2 * H256Len, 62)),
     committed_at |-> Some(1001),
     prove_tx_hash |-> Some(HexString(2 * H256Len, 63)),
     proven_at |-> Some(1002),
     execute_tx_hash |-> None,
     executed_at |-> None,
     l1_gas_price |-> I64(30),
     l2_fair_gas_price |-> I64(25),
     bootloader_code_hash |-> Some(Bytes(H256Len, 42)),
     default_aa_code_hash |-> Some(Bytes(H256Len, 43)),
     fee_account_address |-> Some(Bytes(AddressLen, 71))]

DetailsEdits ==
    <<[field |-> "number", value |-> I64(0)],
      [field |-> "number", value |-> I64(-1)],
      [field |-> "number", value |-> I64Limbs(<<0, 0, 1, 0>>)],
      [field |-> "execute_tx_hash", value |-> Some(HexString(2 * H256Len, 64))],
      [field |-> "execute_tx_hash", value |-> Some(HexString(2 * H256Len - 2, 64))],
      [field |-> "execute_tx_hash", value |-> Some(NotHexString)],
      [field |-> "executed_at", value |-> Some(1003)],
      [field |-> "commit_tx_hash", value |-> None],
      [field |-> "prove_tx_hash", value |-> Some(NotHexString)],
      [field |-> "root_hash", value |-> None],
      [field |-> "root_hash", value |-> Some(Bytes(H256Len + 1, 61))],
      [field |-> "bootloader_code_hash", value |-> None],
      [field |-> "default_aa_code_hash", value |-> None]>>

BlockDetailsEdits ==
    DetailsEdits \o
    <<[field |-> "fee_account_address", value |-> None],
      [field |-> "fee_account_address", value |-> Some(Bytes(AddressLen + 1, 71))]>>

CurrentOperatorAddress == Bytes(AddressLen, 72)

\* The fields that may panic, in the order the struct expression reads them.
DetailsDecode(self) ==
    /\ MapH256(self.root_hash) # Panic
    /\ MapTxHash(self.commit_tx_hash) # Panic
    /\ MapTxHash(self.prove_tx_hash) # Panic
    /\ MapTxHash(self.execute_tx_hash) # Panic
    /\ ExpectH256(self.bootloader_code_hash) # Panic
    /\ ExpectH256(self.default_aa_code_hash) # Panic

into_block_details(self, current_operator_address) ==
    LET status == IF self.number = I64(0) \/ is_some(self.execute_tx_hash)
                    THEN Verified ELSE Sealed
    IN  IF /\ DetailsDecode(self)
           /\ \/ is_none(self.fee_account_address)
              \/ from_slice(unwrap(self.fee_account_address), AddressLen) # Panic
          THEN Ok([number |-> as_u32(self.number),
                   l1_batch_number |-> as_u32(self.l1_batch_number),
                   timestamp |-> as_u64(self.timestamp),
                   l1_tx_count |-> as_usize(self.l1_tx_count),
                   l2_tx_count |-> as_usize(self.l2_tx_count),
                   status |-> status,
                   root_hash |-> MapH256(self.root_hash).value,
                   commit_tx_hash |-> MapTxHash(self.commit_tx_hash).value,
                   committed_at |-> MapUtc(self.committed_at),
                   prove_tx_hash |-> MapTxHash(self.prove_tx_hash).value,
                   proven_at |-> MapUtc(self.proven_at),
                   execute_tx_hash |-> MapTxHash(self.execute_tx_hash).value,
                   executed_at |-> MapUtc(self.executed_at),
                   l1_gas_price |-> as_u64(self.l1_gas_price),
                   l2_fair_gas_price |-> as_u64(self.l2_fair_gas_price),
                   base_system_contracts_hashes |->
                      [bootloader |-> ExpectH256(self.bootloader_code_hash).value,
                       default_aa |-> ExpectH256(self.default_aa_code_hash).value],
                   operator_address |->
                      unwrap_or(self.fee_account_address,
                                current_operator_address)])
          ELSE Panic

L1BatchDetails_from(storage_l1_batch_details) ==
    LET self == storage_l1_batch_details
        status == IF self.number = I64(0) \/ is_some(self.execute_tx_hash)
                    THEN Verified ELSE Sealed
    IN  IF DetailsDecode(self)
          THEN Ok([number |-> as_u32(self.number),
                   timestamp |-> as_u64(self.timestamp),
                   l1_tx_count |-> as_usize(self.l1_tx_count),
                   l2_tx_count |-> as_usize(self.l2_tx_count),
                   status |-> status,
                   root_hash |-> MapH256(self.root_hash).value,
                   commit_tx_hash |-> MapTxHash(self.commit_tx_hash).value,
                   committed_at |-> MapUtc(self.committed_at),
                   prove_tx_hash |-> MapTxHash(self.prove_tx_hash).value,
                   proven_at |-> MapUtc(self.proven_at),
                   execute_tx_hash |-> MapTxHash(self.execute_tx_hash).value,
                   executed_at |-> MapUtc(self.executed_at),
                   l1_gas_price |-> as_u64(self.l1_gas_price),
                   l2_fair_gas_price |-> as_u64(self.l2_fair_gas_price),
                   base_system_contracts_hashes |->
                      [bootloader |-> ExpectH256(self.bootloader_code_hash).value,
                       default_aa |-> ExpectH256(self.default_aa_code_hash).value]])
          ELSE Panic

\* The rows and arguments handed to the four conversions.
PageCalls(kind) ==
    {[kind |-> kind, row |-> r, last_verified |-> v] :
        r \in RowsWithin(BasePageItem, PageItemEdits, MaxEdits),
        v \in LastVerified}

DetailsCalls(kind, base, edits) ==
    {[kind |-> kind, row |-> r] : r \in RowsWithin(base, edits, MaxEdits)}

BlockPageItemFromStorage ==
    /\ storage # NoRow
    /\ storage.kind = "StorageBlockPageItem"
    /\ item = NoResult
    /\ item' = block_page_item_from_storage(storage.row, storage.last_verified)
    /\ UNCHANGED <<chainVars, rowVars, blockRef, whereSql, boundQuery, storage>>

L1BatchPageItemFromStorage ==
    /\ storage # NoRow
    /\ storage.kind = "StorageL1BatchPageItem"
    /\ item = NoResult
    /\ item' = l1_batch_page_item_from_storage(storage.row,
                                               storage.last_verified)
    /\ UNCHANGED <<chainVars, rowVars, blockRef, whereSql, boundQuery, storage>>

IntoBlockDetails ==
    /\ storage # NoRow
    /\ storage.kind = "StorageBlockDetails"
    /\ item = NoResult
    /\ item' = into_block_details(storage.row, CurrentOperatorAddress)
    /\ UNCHANGED <<chainVars, rowVars, blockRef, whereSql, boundQuery, storage>>

IntoL1BatchDetails ==
    /\ storage # NoRow
    /\ storage.kind = "StorageL1BatchDetails"
    /\ item = NoResult
    /\ item' = L1BatchDetails_from(storage.row)
    /\ UNCHANGED <<chainVars, rowVars, blockRef, whereSql, boundQuery, storage>>

InitWeb3 ==
    /\ miniblocks = {}
    /\ l1_batches = {}
    /\ eth_txs = {}
    /\ lastQuery = NoResult
    /\ lastLink = NoResult
    /\ row = NoRow
    /\ header = NoResult
    /\ metadata = NoResult
    /\ mbRow = NoRow
    /\ mbHeader = NoResult
    /\ whereSql = NoResult
    /\ boundQuery = NoResult
    /\ item = NoResult
    /\ \/ /\ blockRef \in BlockRefs
          /\ storage = NoRow
       \/ /\ blockRef = NoRow
          /\ storage \in
                PageCalls("StorageBlockPageItem")
                   \cup PageCalls("StorageL1BatchPageItem")
                   \cup DetailsCalls("StorageBlockDetails",
                                     BaseBlockDetails, BlockDetailsEdits)
                   \cup DetailsCalls("StorageL1BatchDetails",
                                     BaseL1BatchDetails, DetailsEdits)

NextWeb3 ==
    \/ Web3BlockWhereSql
    \/ BindBlockWhereSqlParams
    \/ BlockPageItemFromStorage
    \/ L1BatchPageItemFromStorage
    \/ IntoBlockDetails
    \/ IntoL1BatchDetails

SpecWeb3 == InitWeb3 /\ [][NextWeb3]_vars

(***************************************************************************)
(* Properties of the conversion to L1BatchMetadata.                        *)
(***************************************************************************)
Converted == metadata.kind # "none"

\* Positions, in evaluation order, of the commitment fields that are absent.
AbsentFields == {i \in DOMAIN CommitmentFields : row[CommitmentFields[i]] = None}

\* Positions of the hash fields that are present with another width.
MisfitHashes ==
    {i \in DOMAIN CommitmentFields :
        /\ CommitmentFields[i] \in H256Fields
        /\ row[CommitmentFields[i]] # None
        /\ unwrap(row[CommitmentFields[i]]).len # H256Len}

\* Every output field carries its input.
RoundTrip(m, r) ==
    /\ m.root_hash = unwrap(r.hash)
    /\ SameNumber(m.rollup_last_leaf_index, unwrap(r.rollup_last_leaf_index))
    /\ m.merkle_root_hash = unwrap(r.merkle_root_hash)
    /\ m.initial_writes_compressed = unwrap(r.compressed_initial_writes)
    /\ m.repeated_writes_compressed = unwrap(r.compressed_repeated_writes)
    /\ m.l2_l1_messages_compressed = unwrap(r.l2_l1_compressed_messages)
    /\ m.l2_l1_merkle_root = unwrap(r.l2_l1_merkle_root)
    /\ m.aux_data_hash = unwrap(r.aux_data_hash)
    /\ m.meta_parameters_hash = unwrap(r.meta_parameters_hash)
    /\ m.pass_through_data_hash = unwrap(r.pass_through_data_hash)
    /\ m.commitment = unwrap(r.commitment)
    /\ m.block_meta_params.zkporter_is_available
          = unwrap(r.zkporter_is_available)
    /\ m.block_meta_params.bootloader_code_hash
          = unwrap(r.bootloader_code_hash)
    /\ m.block_meta_params.default_aa_code_hash
          = unwrap(r.default_aa_code_hash)

\* C1 as stated: the conversion of a row with at least one absent
\* commitment field returns Incomplete, whatever the other fields hold.
C1_Original ==
    Converted /\ AbsentFields # {} => metadata = Err(Incomplete)

\* C1 amended: the conversion of a row with at least one absent commitment
\* field never yields a metadata value; it returns Incomplete when no hash
\* field read before the first absent field has a width other than 32
\* bytes, and panics (H256::from_slice) when one has.
C1_AbsentFieldNeverConverts ==
    Converted /\ AbsentFields # {} =>
        /\ metadata.kind # "Ok"
        /\ (\A i \in MisfitHashes : i > SetMin(AbsentFields))
              => metadata = Err(Incomplete)
        /\ (\E i \in MisfitHashes : i < SetMin(AbsentFields))
              => metadata = Panic

\* Incomplete was returned for a row whose absent field is not the first
\* one read, with a hash of another width after it.
C1_Witness ==
    /\ metadata = Err(Incomplete)
    /\ AbsentFields # {}
    /\ SetMin(AbsentFields) > 1
    /\ \E i \in MisfitHashes : i > SetMin(AbsentFields)

C9_NarrowingIsChecked ==
    /\ header.kind = "Ok" =>
          /\ SameNumber(header.value.number, row.number)
          /\ SameNumber(header.value.timestamp, row.timestamp)
          /\ header.value.l1_tx_count = row.l1_tx_count
          /\ header.value.l2_tx_count = row.l2_tx_count
          /\ SameNumber(header.value.l1_gas_price, row.l1_gas_price)
          /\ SameNumber(header.value.l2_fair_gas_price, row.l2_fair_gas_price)
    /\ mbHeader.kind = "Ok" =>
          /\ SameNumber(mbHeader.value.number, mbRow.number)
          /\ SameNumber(mbHeader.value.timestamp, mbRow.timestamp)
          /\ mbHeader.value.l1_tx_count = mbRow.l1_tx_count
          /\ mbHeader.value.l2_tx_count = mbRow.l2_tx_count
          /\ SameNumber(mbHeader.value.l1_gas_price, mbRow.l1_gas_price)
          /\ SameNumber(mbHeader.value.l2_fair_gas_price,
                        mbRow.l2_fair_gas_price)

\* A row is well formed when its always-present columns decode and the
\* code hashes it holds are 32 bytes wide.
WellFormedRow ==
    /\ HeaderDecodes(row)
    /\ \A f \in {"bootloader_code_hash", "default_aa_code_hash"} :
          row[f] # None => unwrap(row[f]).len = H256Len

\* C10 as stated: every well-formed row yields a header, also when its
\* nullable columns are absent.
C10_Original ==
    header.kind # "none" /\ WellFormedRow => header.kind = "Ok"

\* C10 amended: a well-formed row yields a header exactly when its
\* bootloader_code_hash and default_aa_code_hash are both present, whatever
\* the other nullable columns hold, and the header carries these two
\* hashes; when either is absent the conversion panics.
C10_HeaderNeedsCodeHashes ==
    header.kind # "none" /\ WellFormedRow =>
        IF row.bootloader_code_hash # None /\ row.default_aa_code_hash # None
          THEN /\ header.kind = "Ok"
               /\ header.value.base_system_contracts_hashes
                     = [bootloader |-> unwrap(row.bootloader_code_hash),
                        default_aa |-> unwrap(row.default_aa_code_hash)]
          ELSE header = Panic

\* A header built from a row whose other commitment fields are absent.
C10_Witness ==
    /\ header.kind = "Ok"
    /\ row.hash = None
    /\ row.commitment = None

\* C11: a MiniblockHeader is never built without its system-contract hash
\* pair: the conversion of a row whose bootloader_code_hash or
\* default_aa_code_hash is absent panics, and a header that is built
\* carries exactly the two hashes of the row.
C11_MiniblockHeaderNeedsCodeHashes ==
    mbHeader.kind # "none" =>
        /\ mbRow.bootloader_code_hash = None \/ mbRow.default_aa_code_hash = None
              => mbHeader = Panic
        /\ mbHeader.kind = "Ok" =>
              /\ mbRow.bootloader_code_hash # None
              /\ mbRow.default_aa_code_hash # None
              /\ mbHeader.value.base_system_contracts_hashes
                    = [bootloader |-> unwrap(mbRow.bootloader_code_hash),
                       default_aa |-> unwrap(mbRow.default_aa_code_hash)]
              /\ mbHeader.value.base_system_contracts_hashes.bootloader.len
                    = H256Len
              /\ mbHeader.value.base_system_contracts_hashes.default_aa.len
                    = H256Len

\* The conversion panicked on a row that lacks only default_aa_code_hash.
C11_Witness ==
    /\ mbHeader = Panic
    /\ mbRow # NoRow
    /\ mbRow.default_aa_code_hash = None
    /\ mbRow.bootloader_code_hash = BaseMiniblockRow.bootloader_code_hash
    /\ mbRow.hash = BaseMiniblockRow.hash
    /\ mbRow.base_fee_per_gas = BaseMiniblockRow.base_fee_per_gas

(***************************************************************************)
(* Properties of the WHERE predicate and its bound parameters.             *)
(***************************************************************************)
IsExact(block_id) ==
    block_id.id = "Hash" \/ block_id.number.tag = "Number"

Placeholders(sql) == {i \in DOMAIN sql : sql[i].kind = "placeholder"}

\* The arguments that binding the reference added to the query.
Added ==
    SubSeq(boundQuery.value.arguments,
           Len(blockRef.arguments) + 1, Len(boundQuery.value.arguments))

\* The predicate and the binding agree on whether a parameter is needed.
WhereAndBindAgree ==
    LET block_id == blockRef.block_id
        sql == whereSql.value
    IN  /\ (\E i \in DOMAIN sql : sql[i] = Placeholder(blockRef.arg_index))
              <=> IsExact(block_id)
        /\ Placeholders(sql) # {} <=> IsExact(block_id)
        /\ boundQuery.value.sql = sql
        /\ SubSeq(boundQuery.value.arguments, 1, Len(blockRef.arguments))
              = blockRef.arguments
        /\ Len(Added) = IF IsExact(block_id) THEN 1 ELSE 0
        /\ ~IsExact(block_id) =>
              sql = <<Text("miniblocks.number = ")>>
                       \o web3_block_number_to_sql(block_id.number)
        /\ block_id.id = "Hash" => Added[1] = block_id.hash

\* C12: web3_block_where_sql and bind_block_where_sql_params agree for every
\* block reference: the predicate holds the placeholder $arg_index exactly
\* for a hash or an exact number, and exactly then bind adds one parameter,
\* the hash bytes or the number; for the symbolic tags the predicate is
\* 'miniblocks.number = ' followed by the inlined expression, holds no
\* placeholder, and bind adds nothing.
C12_WhereAndBindAgree ==
    boundQuery # NoResult =>
        /\ WhereAndBindAgree
        /\ /\ blockRef.block_id.id = "Number"
           /\ blockRef.block_id.number.tag = "Number"
           => SameNumber(Added[1], blockRef.block_id.number.number)

\* What holds of the bound exact number: it is the i64 with the 64 bits of
\* the number, which is the number itself only below 2^63.
BoundNumberIsReinterpreted ==
    boundQuery # NoResult =>
        /\ WhereAndBindAgree
        /\ /\ blockRef.block_id.id = "Number"
           /\ blockRef.block_id.number.tag = "Number"
           => /\ Added[1] = as_i64(blockRef.block_id.number.number)
              /\ ~IsNegative(Added[1])
                    => SameNumber(Added[1], blockRef.block_id.number.number)

(***************************************************************************)
(* Properties of the reported BlockStatus.                                 *)
(***************************************************************************)
\* x <= y on two i64, from equality and the order of the two swapped.
AtMost(x, y) == x = y \/ Greater(y, x)

IsPageCall ==
    storage.kind \in {"StorageBlockPageItem", "StorageL1BatchPageItem"}

\* C13: the status reported for a block or batch is exactly one of Sealed
\* and Verified.  In the two details conversions it is Verified if and only
\* if the stored number is 0 or an execute transaction hash is present; in
\* the two page-item conversions it is Verified if and only if the stored
\* number is at most last_verified.  Otherwise it is Sealed.
C13_StatusIsDecidedByNumber ==
    item.kind = "Ok" =>
        /\ item.value.status \in {Sealed, Verified}
        /\ IsPageCall =>
              (item.value.status = Verified
                  <=> AtMost(storage.row.number,
                             u32_as_i64(storage.last_verified)))
        /\ ~IsPageCall =>
              (item.value.status = Verified
                  <=> \/ SameNumber(storage.row.number, I64(0))
                      \/ storage.row.execute_tx_hash # None)

\* A page item whose number equals last_verified was reported Verified.
C13_Witness ==
    /\ item.kind = "Ok"
    /\ storage.kind = "StorageBlockPageItem"
    /\ storage.row.number = u32_as_i64(storage.last_verified)
    /\ item.value.status = Verified

====
